---- MODULE Spec2Model ----
(***************************************************************************)
(* The computation-and-memoization pipeline of the math microservice:      *)
(* MathService (src/repository.py) with its three entry points, the        *)
(* numeric algorithms, the cache key derivation, and the history record    *)
(* written by ComputationRepository.save_computation (src/service.py).     *)
(*                                                                         *)
(* Each request is a coroutine; it is modelled as one process whose steps  *)
(* are the stretches of code between two awaits.  The cache service, the   *)
(* message broker and the database session are collaborators the code      *)
(* imports; their calls either complete or raise.                          *)
(*                                                                         *)
(* Python integers are unbounded.  The values of fibonacci and factorial   *)
(* are carried modulo Modulus, which is exact for every value below it and *)
(* preserves every equality between the integer expressions of the code.   *)
(***************************************************************************)
EXTENDS Integers, Sequences, FiniteSets, TLC

\* ---------------------------------------------------------------- bounds
NReq == 2
MaxCalls == 2
MaxSeqCalls == 3
MaxClock == 2
MaxComputeMs == 1
MaxTTL == 2
Modulus == 46337
MaxFibN == 1200
MaxFactN == 205
MaxSmallN == 12
Window == 2
MaxBase == 3
MaxExponent == 6
MaxNegative == 2

\* ------------------------------------------------------ program constants
FACTORIAL_MAX == 50000
FIBONACCI_MATRIX_THRESHOLD == 1000
FACTORIAL_ITERATIVE_MAX == 100
RESULT_LOG_LIMIT == 1000

Requests == 1..NReq
TTLs == 1..MaxTTL

None == <<>>

\* ------------------------------------------------------------ rendering
DigitChar == <<"0", "1", "2", "3", "4", "5", "6", "7", "8", "9">>

RECURSIVE Digits(_)
Digits(n) ==
    IF n < 10 THEN <<DigitChar[n + 1]>>
    ELSE Digits(n \div 10) \o <<DigitChar[(n % 10) + 1]>>

\* str() of a Python int
StrInt(n) == IF n < 0 THEN <<"-">> \o Digits(0 - n) ELSE Digits(n)

RECURSIVE FracDigits(_, _)
FracDigits(rem, den) ==
    IF rem = 0 THEN <<>>
    ELSE <<DigitChar[((rem * 10) \div den) + 1]>> \o FracDigits((rem * 10) % den, den)

\* str() of the Python float 1 / den, for a den whose reciprocal has a short
\* terminating decimal expansion (den = +-1, +-2, +-4, ...)
StrRecip(den) ==
    LET a == IF den < 0 THEN 0 - den ELSE den
        frac == FracDigits(1 % a, a)
    IN  (IF den < 0 THEN <<"-">> ELSE <<>>)
        \o Digits(1 \div a) \o <<".">>
        \o (IF frac = <<>> THEN <<"0">> ELSE frac)

\* a value of the numeric engine: an int, the float 1 / den, or an exception
IntVal(n) == [kind |-> "int", v |-> n]
RecipVal(d) == [kind |-> "float", v |-> d]
Raised(e) == [kind |-> "error", v |-> e]

\* str(result), lines 45, 78, 111
Str(val) == IF val.kind = "int" THEN StrInt(val.v) ELSE StrRecip(val.v)

\* --------------------------------------------------------- NumericEngine
\* a variant that multiplies on every pass
RECURSIVE PowerLoop_everyBit(_, _, _)
PowerLoop_everyBit(res, base_power, exp) ==
    IF exp > 0
    THEN PowerLoop_everyBit(res * base_power, base_power * base_power, exp \div 2)
    ELSE res

\* the loop of _fast_power, on result (here res), base_power and exp
RECURSIVE PowerLoop(_, _, _)
PowerLoop(res, base_power, exp) ==
    IF exp > 0
    THEN PowerLoop(IF exp % 2 = 1 THEN res * base_power ELSE res,
                   base_power * base_power, exp \div 2)
    ELSE res

\* a variant that forgets the division
_fast_power_noReciprocal(base, exp) ==
    IF exp = 0 THEN IntVal(1)
    ELSE IF exp < 0
         THEN IntVal(PowerLoop(1, base, 0 - exp))
         ELSE IntVal(PowerLoop(1, base, exp))

\* a variant that yields 0 where the division is impossible
_fast_power_noRaise(base, exp) ==
    IF exp = 0 THEN IntVal(1)
    ELSE IF exp < 0
         THEN LET inner == PowerLoop(1, base, 0 - exp)
              IN  IF inner = 0 THEN IntVal(0) ELSE RecipVal(inner)
         ELSE IntVal(PowerLoop(1, base, exp))

_fast_power(base, exp) ==
    IF exp = 0 THEN IntVal(1)
    ELSE IF exp < 0
         THEN LET inner == PowerLoop(1, base, 0 - exp)
              IN  IF inner = 0 THEN Raised("ZeroDivisionError")
                  ELSE RecipVal(inner)
         ELSE IntVal(PowerLoop(1, base, exp))

\* one pass of the body of `for _ in range(2, n + 1): a, b = b, a + b`, on the
\* triple <<a, b, next value of the range>>
FibStep(abi) == <<abi[2], (abi[1] + abi[2]) % Modulus, abi[3] + 1>>

\* the loop of _iterative_fibonacci: the passes for the values of the range up
\* to stop, in order (the first half of them, then the rest)
RECURSIVE FibLoop(_, _)
FibLoop(abi, stop) ==
    IF abi[3] > stop THEN abi
    ELSE IF abi[3] = stop THEN FibStep(abi)
    ELSE FibLoop(FibLoop(abi, (abi[3] + stop) \div 2), stop)

_iterative_fibonacci(n) == IF n <= 1 THEN n ELSE FibLoop(<<0, 1, 2>>, n)[2]

matrix_mult(a, b) ==
    << << (((a[1][1]*b[1][1]) % Modulus) + ((a[1][2]*b[2][1]) % Modulus)) % Modulus,
          (((a[1][1]*b[1][2]) % Modulus) + ((a[1][2]*b[2][2]) % Modulus)) % Modulus >>,
       << (((a[2][1]*b[1][1]) % Modulus) + ((a[2][2]*b[2][1]) % Modulus)) % Modulus,
          (((a[2][1]*b[1][2]) % Modulus) + ((a[2][2]*b[2][2]) % Modulus)) % Modulus >> >>

RECURSIVE matrix_power(_, _)
matrix_power(matrix, n) ==
    IF n = 1 THEN matrix
    ELSE IF n % 2 = 0
         THEN LET half == matrix_power(matrix, n \div 2)
              IN  matrix_mult(half, half)
         ELSE matrix_mult(matrix, matrix_power(matrix, n - 1))

\* a variant that reads the wrong entry of the matrix
_matrix_fibonacci_corner(n) ==
    IF n <= 1 THEN n
    ELSE matrix_power(<< <<1, 1>>, <<1, 0>> >>, n)[1][1]

_matrix_fibonacci(n) ==
    IF n <= 1 THEN n
    ELSE matrix_power(<< <<1, 1>>, <<1, 0>> >>, n)[1][2]

RECURSIVE _product_range(_, _)
_product_range(start, end) ==
    IF start > end THEN 1
    ELSE IF start = end THEN start % Modulus
    ELSE LET mid == (start + end) \div 2
         IN  (_product_range(start, mid) * _product_range(mid + 1, end)) % Modulus

\* the loop of _optimized_factorial: `for i in range(2, n + 1): result *= i`,
\* on the pair <<result, i>>
RECURSIVE FactorialLoop(_, _)
FactorialLoop(ri, n) ==
    IF ri[2] <= n
    THEN FactorialLoop(<<(ri[1] * ri[2]) % Modulus, ri[2] + 1>>, n)
    ELSE ri[1]

RECURSIVE _optimized_factorial(_)
\* a variant whose upper half starts at mid
_optimized_factorial_overlap(n) ==
    IF n <= 1 THEN 1
    ELSE IF n <= FACTORIAL_ITERATIVE_MAX THEN FactorialLoop(<<1, 2>>, n)
    ELSE LET mid == n \div 2
         IN  (_optimized_factorial(mid) * _product_range(mid, n)) % Modulus

_optimized_factorial(n) ==
    IF n <= 1 THEN 1
    ELSE IF n <= FACTORIAL_ITERATIVE_MAX THEN FactorialLoop(<<1, 2>>, n)
    ELSE LET mid == n \div 2
         IN  (_optimized_factorial(mid) * _product_range(mid + 1, n)) % Modulus

\* --------------------------------------------------------------- KeyCodec
\* params is the keyword-argument mapping in insertion order: a sequence of
\* <<name, value>> pairs.  Names are ordered by their position in NameOrder.
NameOrder == <<"base", "exponent", "n">>

NameRank(name) == CHOOSE i \in 1..Len(NameOrder) : NameOrder[i] = name

RECURSIVE InsertSorted(_, _)
InsertSorted(pair, sorted) ==
    IF sorted = <<>> THEN <<pair>>
    ELSE IF NameRank(pair[1]) <= NameRank(Head(sorted)[1])
         THEN <<pair>> \o sorted
         ELSE <<Head(sorted)>> \o InsertSorted(pair, Tail(sorted))

\* a variant that keeps the order in which the parameters were given
SortKeys_asGiven(params) == params

RECURSIVE SortKeys(_)
SortKeys(params) ==
    IF params = <<>> THEN <<>>
    ELSE InsertSorted(Head(params), SortKeys(Tail(params)))

\* the members of a JSON object, `"name": value` joined by `, `
RECURSIVE JsonMembers(_)
JsonMembers(pairs) ==
    IF pairs = <<>> THEN <<>>
    ELSE <<"\"", Head(pairs)[1], "\"", ": ">> \o StrInt(Head(pairs)[2])
         \o (IF Tail(pairs) = <<>> THEN <<>> ELSE <<", ">> \o JsonMembers(Tail(pairs)))

\* json.dumps(params, sort_keys=True): the text, piece by piece
JsonDumpsSorted(params) == <<"{">> \o JsonMembers(SortKeys(params)) \o <<"}">>

\* key_data = f"{operation}:{json.dumps(params, sort_keys=True)}"
KeyData(operation, params) == <<operation, ":">> \o JsonDumpsSorted(params)

\* hashlib.sha256(key_data.encode()).hexdigest(); the digest is taken to be
\* collision free and stands as the text it was taken of
Sha256Hex(key_data) == <<"sha256", key_data>>

\* a variant that leaves the operation out of the key
_generate_cache_key_noOperation(operation, params) ==
    <<"math:", Sha256Hex(JsonDumpsSorted(params))>>

\* f"math:{...hexdigest()}"
_generate_cache_key(operation, params) ==
    <<"math:", Sha256Hex(KeyData(operation, params))>>

\* ------------------------------------------------------------ the inputs
\* the calls of the concurrent and of the sequential clients; only the
\* sequential client calls power
PowerArgs == { <<2, -1>> }
FibonacciArgs == { 3 }
FactorialArgs == { 3 }
\* the calls of the validation workload: the ceiling, and the zero base
PowerEdgeArgs == { <<2, 2>>, <<0, -1>> }
FactorialEdgeArgs == { FACTORIAL_MAX, FACTORIAL_MAX + 1 }

\* the calls of the range workload: n from below zero to a small bound and
\* n around each threshold; every small base with every small exponent >= 0,
\* and the bases whose reciprocal powers print exactly with every small
\* exponent < 0
Near(threshold) == (threshold - Window)..(threshold + Window)
FibonacciRange ==
    ((0 - MaxNegative)..MaxSmallN) \cup Near(FIBONACCI_MATRIX_THRESHOLD)
FactorialRange ==
    ((0 - MaxNegative)..MaxSmallN) \cup Near(FACTORIAL_ITERATIVE_MAX)
    \cup Near(2 * FACTORIAL_ITERATIVE_MAX)
DyadicBases == {-2, -1, 0, 1, 2}
PowerRangeArgs ==
    { <<b, e>> : b \in (0 - MaxBase)..MaxBase, e \in 0..MaxExponent }
    \cup { <<b, 0 - e>> : b \in DyadicBases, e \in 1..MaxExponent }
    \cup { <<2, 10>> }

PowerParams(base, exponent) == << <<"base", base>>, <<"exponent", exponent>> >>
NParams(n) == << <<"n", n>> >>

Param(params, name) ==
    LET i == CHOOSE j \in 1..Len(params) : params[j][1] = name
    IN  params[i][2]

NoRequest == [operation |-> "none", params |-> <<>>, cache_ttl |-> 0]

\* ------------------------------------------------------------------ state
VARIABLES
    pc,          \* per worker: where its coroutine is suspended
    req,         \* per worker: operation, params, cache_ttl of its request
    cache_key,   \* per worker: the key derived at entry
    result,      \* per worker: the ComputationResult being built or returned
    err,         \* per worker: the exception that reached the caller
    call_id,     \* per worker: the number of the request it is serving
    calls,       \* the number of requests received so far
    next_uuid,   \* source of request ids
    now,         \* wall clock, in seconds
    cache,       \* the cache service: key -> [value, expires]
    history,     \* the computation_log table, in commit order
    events,      \* the messages published, in order
    trace,       \* per worker: the collaborator and engine steps of its request
    saw,         \* per worker: what the probe of its request found
    stored,      \* for each key ever written: when its last write runs out
    logged_by    \* for each history record, the request that wrote it

vars == <<pc, req, cache_key, result, err, call_id, calls, next_uuid, now,
          cache, history, events, trace, saw, stored, logged_by>>

NoResult == [request_id |-> 0, result |-> <<>>, computation_time_ms |-> 0,
             cached |-> FALSE]

Init ==
    /\ pc = [r \in Requests |-> "idle"]
    /\ req = [r \in Requests |-> NoRequest]
    /\ cache_key = [r \in Requests |-> None]
    /\ result = [r \in Requests |-> NoResult]
    /\ err = [r \in Requests |-> "none"]
    /\ call_id = [r \in Requests |-> 0]
    /\ calls = 0
    /\ next_uuid = 1
    /\ now = 0
    /\ cache = << >>
    /\ history = << >>
    /\ events = << >>
    /\ trace = [r \in Requests |-> << >>]
    /\ saw = [r \in Requests |-> "nothing"]
    /\ stored = << >>
    /\ logged_by = << >>

\* ------------------------------------------------- ResultStore (cache_client)
\* get: the value under the key, or None when absent or expired
CacheGet(store, key, time) ==
    IF key \in DOMAIN store /\ time < store[key].expires
    THEN store[key].value
    ELSE None

\* setex: the value replaces whatever is under the key and lives ttl seconds
CacheSetex(store, key, ttl, value, time) ==
    [k \in DOMAIN store \cup {key} |->
        IF k = key THEN [value |-> value, expires |-> time + ttl] ELSE store[k]]

\* the entries that are still alive at the given time
CacheExpire(store, time) ==
    [k \in {j \in DOMAIN store : time < store[j].expires} |-> store[k]]

\* ------------------------------------------------------ ComputationResult
\* computation_result.json()
Json(cr) ==
    << <<"request_id", cr.request_id>>,
       <<"result", cr.result>>,
       <<"computation_time_ms", cr.computation_time_ms>>,
       <<"cached", cr.cached>> >>

JsonField(payload, name) ==
    LET i == CHOOSE j \in 1..Len(payload) : payload[j][1] = name
    IN  payload[i][2]

\* json.loads(cached_result)
JsonLoads(payload) ==
    [request_id |-> JsonField(payload, "request_id"),
     result |-> JsonField(payload, "result"),
     computation_time_ms |-> JsonField(payload, "computation_time_ms"),
     cached |-> JsonField(payload, "cached")]

\* a variant that gives the hit an id of its own
HitResult_freshId(payload) ==
    [JsonLoads(payload) EXCEPT !.cached = TRUE, !.request_id = 0]

\* a variant that forgets to set the flag
HitResult_flagKept(payload) == JsonLoads(payload)

\* the hit path: result = json.loads(cached_result); result["cached"] = True
HitResult(payload) == [JsonLoads(payload) EXCEPT !.cached = TRUE]

\* a variant that marks the fresh result as cached
MissResult_cachedTrue(uuid, value, computation_time) ==
    [request_id |-> uuid, result |-> Str(value),
     computation_time_ms |-> computation_time, cached |-> TRUE]

\* the miss path: ComputationResult(request_id=..., result=str(result), ...)
MissResult(uuid, value, computation_time) ==
    [request_id |-> uuid, result |-> Str(value),
     computation_time_ms |-> computation_time, cached |-> FALSE]

\* `if cached_result:`
Truthy(cached_result) == cached_result # None

\* ---------------------------------------------------------- the compute step
\* a variant that is off by one
InputTooLarge_offByOne(n) == n >= FACTORIAL_MAX

\* `if n > 50000: raise ValueError(...)`
InputTooLarge(n) == n > FACTORIAL_MAX

\* `_matrix_fibonacci(n) if n > 1000 else _iterative_fibonacci(n)`
FibonacciDispatch(n) ==
    IF n > FIBONACCI_MATRIX_THRESHOLD
    THEN _matrix_fibonacci(n) ELSE _iterative_fibonacci(n)

Compute(request) ==
    IF request.operation = "power"
    THEN _fast_power(Param(request.params, "base"), Param(request.params, "exponent"))
    ELSE IF request.operation = "fibonacci"
    THEN IntVal(FibonacciDispatch(Param(request.params, "n")))
    ELSE IntVal(_optimized_factorial(Param(request.params, "n")))

\* the value the engine yields for each call the model makes, computed once
Calls ==
    { [operation |-> "power", params |-> PowerParams(a[1], a[2])] :
          a \in PowerArgs \cup PowerEdgeArgs }
    \cup { [operation |-> "fibonacci", params |-> NParams(n)] : n \in FibonacciArgs }
    \cup { [operation |-> "factorial", params |-> NParams(n)] :
              n \in {m \in FactorialArgs \cup FactorialEdgeArgs : ~InputTooLarge(m)} }

RangeCalls ==
    { [operation |-> "power", params |-> PowerParams(a[1], a[2])] : a \in PowerRangeArgs }
    \cup { [operation |-> "fibonacci", params |-> NParams(n)] : n \in FibonacciRange }
    \cup { [operation |-> "factorial", params |-> NParams(n)] : n \in FactorialRange }

EngineValue == [c \in Calls \cup RangeCalls |-> Compute(c)]

CallOf(request) == [operation |-> request.operation, params |-> request.params]

\* ------------------------------------------------- HistorySink / EventPublisher
\* a variant that records every request as a miss
ComputationLog_cachedFalse(operation, params, text, cached) ==
    [operation |-> operation,
     parameters |-> params,
     result |-> SubSeq(text, 1, IF Len(text) < RESULT_LOG_LIMIT
                                THEN Len(text) ELSE RESULT_LOG_LIMIT),
     cached |-> FALSE]

\* ComputationLog(operation=..., parameters=..., result=result[:1000], ...);
\* created_at, which nothing reads, is left out
ComputationLog(operation, params, text, cached) ==
    [operation |-> operation,
     parameters |-> params,
     result |-> SubSeq(text, 1, IF Len(text) < RESULT_LOG_LIMIT
                                THEN Len(text) ELSE RESULT_LOG_LIMIT),
     cached |-> cached]

\* the payload of publish_event("computation.completed", {...}); timestamp,
\* which nothing reads, is left out
CompletedEvent(operation, params, cached) ==
    [topic |-> "computation.completed",
     operation |-> operation,
     params |-> params,
     cached |-> cached]

\* ------------------------------------------------------------- entry points
\* a worker whose last request has returned or raised is free
Free(r) == pc[r] \in {"idle", "returned", "raised"}

\* the worker takes the request: nothing is left of its previous one
Accept(r, operation, params, cache_ttl) ==
    /\ Free(r)
    /\ req' = [req EXCEPT ![r] = [operation |-> operation, params |-> params,
                                  cache_ttl |-> cache_ttl]]
    /\ calls' = calls + 1
    /\ call_id' = [call_id EXCEPT ![r] = calls + 1]

\* a request that passed entry: its key is derived and the probe is awaited
Enter(r, operation, params, cache_ttl) ==
    /\ Accept(r, operation, params, cache_ttl)
    /\ cache_key' = [cache_key EXCEPT ![r] = _generate_cache_key(operation, params)]
    /\ pc' = [pc EXCEPT ![r] = "get"]
    /\ result' = [result EXCEPT ![r] = NoResult]
    /\ err' = [err EXCEPT ![r] = "none"]
    /\ trace' = [trace EXCEPT ![r] = << >>]
    /\ saw' = [saw EXCEPT ![r] = "nothing"]
    /\ UNCHANGED <<next_uuid, now, cache, history, events, stored, logged_by>>

compute_power(r, base, exponent, cache_ttl) ==
    Enter(r, "power", PowerParams(base, exponent), cache_ttl)

compute_fibonacci(r, n, cache_ttl) ==
    Enter(r, "fibonacci", NParams(n), cache_ttl)

compute_factorial(r, n, cache_ttl) ==
    IF InputTooLarge(n)
    THEN /\ Accept(r, "factorial", NParams(n), cache_ttl)
         /\ pc' = [pc EXCEPT ![r] = "raised"]
         /\ err' = [err EXCEPT ![r] = "InputTooLarge"]
         /\ cache_key' = [cache_key EXCEPT ![r] = None]
         /\ result' = [result EXCEPT ![r] = NoResult]
         /\ trace' = [trace EXCEPT ![r] = << >>]
         /\ saw' = [saw EXCEPT ![r] = "nothing"]
         /\ UNCHANGED <<next_uuid, now, cache, history, events, stored, logged_by>>
    ELSE Enter(r, "factorial", NParams(n), cache_ttl)

\* ------------------------------------------- the probe and what follows it
\* where the key stands when the probe runs, by the writes made so far
KeyStatus(key) ==
    IF key \notin DOMAIN stored THEN "never"
    ELSE IF now < stored[key] THEN "live" ELSE "expired"

\* cache_client.get returns; on a hit the payload is loaded and the log is
\* awaited, on a miss the engine runs and the store is awaited
Probe(r) ==
    /\ pc[r] = "get"
    /\ saw' = [saw EXCEPT ![r] = KeyStatus(cache_key[r])]
    /\ LET cached_result == CacheGet(cache, cache_key[r], now)
       IN  IF Truthy(cached_result)
           THEN /\ result' = [result EXCEPT ![r] = HitResult(cached_result)]
                /\ pc' = [pc EXCEPT ![r] = "log"]
                /\ trace' = [trace EXCEPT ![r] = Append(@, "hit")]
                /\ UNCHANGED <<err, next_uuid>>
           ELSE LET value == EngineValue[CallOf(req[r])]
                IN  /\ trace' = [trace EXCEPT ![r] = @ \o <<"miss", "compute">>]
                    /\ IF value.kind = "error"
                       THEN /\ pc' = [pc EXCEPT ![r] = "raised"]
                            /\ err' = [err EXCEPT ![r] = value.v]
                            /\ UNCHANGED <<result, next_uuid>>
                       ELSE /\ \E computation_time \in 0..MaxComputeMs :
                                 result' = [result EXCEPT ![r] =
                                     MissResult(next_uuid, value, computation_time)]
                            /\ next_uuid' = next_uuid + 1
                            /\ pc' = [pc EXCEPT ![r] = "setex"]
                            /\ UNCHANGED err
    /\ UNCHANGED <<req, cache_key, call_id, calls, now, cache, history, events,
                   stored, logged_by>>

\* a variant that stores with the longest time to live, whatever was asked
Store_ignoresTTL(r) ==
    /\ pc[r] = "setex"
    /\ cache' = CacheSetex(cache, cache_key[r], MaxTTL, Json(result[r]), now)
    /\ stored' = [k \in DOMAIN stored \cup {cache_key[r]} |->
                      IF k = cache_key[r] THEN now + MaxTTL ELSE stored[k]]
    /\ trace' = [trace EXCEPT ![r] = Append(@, "setex")]
    /\ pc' = [pc EXCEPT ![r] = "log"]
    /\ UNCHANGED <<req, cache_key, result, err, call_id, calls, next_uuid, now,
                   history, events, saw, logged_by>>

\* a variant that leaves an entry that is already there
Store_keepsFirst(r) ==
    /\ pc[r] = "setex"
    /\ cache' = IF cache_key[r] \in DOMAIN cache THEN cache
                ELSE CacheSetex(cache, cache_key[r], req[r].cache_ttl,
                                Json(result[r]), now)
    /\ stored' = IF cache_key[r] \in DOMAIN cache THEN stored
                 ELSE [k \in DOMAIN stored \cup {cache_key[r]} |->
                          IF k = cache_key[r] THEN now + req[r].cache_ttl
                          ELSE stored[k]]
    /\ trace' = [trace EXCEPT ![r] = Append(@, "setex")]
    /\ pc' = [pc EXCEPT ![r] = "log"]
    /\ UNCHANGED <<req, cache_key, result, err, call_id, calls, next_uuid, now,
                   history, events, saw, logged_by>>

\* cache_client.setex(cache_key, cache_ttl, computation_result.json())
Store(r) ==
    /\ pc[r] = "setex"
    /\ cache' = CacheSetex(cache, cache_key[r], req[r].cache_ttl, Json(result[r]), now)
    /\ stored' = [k \in DOMAIN stored \cup {cache_key[r]} |->
                      IF k = cache_key[r] THEN now + req[r].cache_ttl ELSE stored[k]]
    /\ trace' = [trace EXCEPT ![r] = Append(@, "setex")]
    /\ pc' = [pc EXCEPT ![r] = "log"]
    /\ UNCHANGED <<req, cache_key, result, err, call_id, calls, next_uuid, now,
                   history, events, saw, logged_by>>

\* repo.save_computation(operation, params, result, cached): add and commit
save_computation(r) ==
    /\ pc[r] = "log"
    /\ history' = Append(history,
           ComputationLog(req[r].operation, req[r].params, result[r].result,
                          result[r].cached))
    /\ logged_by' = Append(logged_by, call_id[r])
    /\ trace' = [trace EXCEPT ![r] = Append(@, "save")]
    /\ pc' = [pc EXCEPT ![r] = "publish"]
    /\ UNCHANGED <<req, cache_key, result, err, call_id, calls, next_uuid, now,
                   cache, events, saw, stored>>

\* publish_event("computation.completed", ...), then the result is returned
publish_event(r) ==
    /\ pc[r] = "publish"
    /\ events' = Append(events,
           CompletedEvent(req[r].operation, req[r].params, result[r].cached))
    /\ trace' = [trace EXCEPT ![r] = Append(@, "publish")]
    /\ pc' = [pc EXCEPT ![r] = "returned"]
    /\ UNCHANGED <<req, cache_key, result, err, call_id, calls, next_uuid, now,
                   cache, history, saw, stored, logged_by>>

\* ------------------------------------------------- a collaborator call raises
\* none of the awaited calls is wrapped in a try: the exception ends the
\* request and its locals are gone
CollaboratorRaises(r, at, what) ==
    /\ pc[r] = at
    /\ pc' = [pc EXCEPT ![r] = "raised"]
    /\ err' = [err EXCEPT ![r] = what]
    /\ result' = [result EXCEPT ![r] = NoResult]
    /\ UNCHANGED <<req, cache_key, call_id, calls, next_uuid, now, cache, history,
                   events, trace, saw, stored, logged_by>>

GetRaises(r) == CollaboratorRaises(r, "get", "cache_client.get")
SetexRaises(r) == CollaboratorRaises(r, "setex", "cache_client.setex")
SaveRaises(r) == CollaboratorRaises(r, "log", "save_computation")
PublishRaises(r) == CollaboratorRaises(r, "publish", "publish_event")

\* ------------------------------------------------------------------- time
\* a second passes; the entries whose time to live has run out are gone
Tick ==
    /\ now < MaxClock
    /\ now' = now + 1
    /\ cache' = CacheExpire(cache, now + 1)
    /\ UNCHANGED <<pc, req, cache_key, result, err, call_id, calls, next_uuid,
                   history, events, trace, saw, stored, logged_by>>

\* the steps every workload shares
Proceed ==
    \/ \E r \in Requests : Probe(r)
    \/ \E r \in Requests : Store(r)
    \/ \E r \in Requests : save_computation(r)
    \/ \E r \in Requests : publish_event(r)
    \/ \E r \in Requests : GetRaises(r)
    \/ \E r \in Requests : SetexRaises(r)
    \/ \E r \in Requests : SaveRaises(r)
    \/ \E r \in Requests : PublishRaises(r)
    \/ Tick

\* a request is taken by the first free worker
Arrives(r) ==
    /\ calls < MaxCalls
    /\ \A q \in 1..(r - 1) : ~Free(q)

\* concurrent clients
Next ==
    \/ \E r \in Requests, n \in FibonacciArgs, t \in TTLs :
          Arrives(r) /\ compute_fibonacci(r, n, t)
    \/ \E r \in Requests, n \in FactorialArgs, t \in TTLs :
          Arrives(r) /\ compute_factorial(r, n, t)
    \/ Proceed

Spec == Init /\ [][Next]_vars

\* concurrent clients calling at the factorial ceiling and with a zero base
NextEdge ==
    \/ \E r \in Requests, a \in PowerEdgeArgs, t \in TTLs :
          Arrives(r) /\ compute_power(r, a[1], a[2], t)
    \/ \E r \in Requests, n \in FactorialEdgeArgs, t \in TTLs :
          Arrives(r) /\ compute_factorial(r, n, t)
    \/ Proceed

SpecEdge == Init /\ [][NextEdge]_vars

\* one client that makes its calls one after the other
ArrivesSeq(r) == r = 1 /\ calls < MaxSeqCalls

NextSeq ==
    \/ \E r \in Requests, a \in PowerArgs, t \in TTLs :
          ArrivesSeq(r) /\ compute_power(r, a[1], a[2], t)
    \/ \E r \in Requests, n \in FibonacciArgs, t \in TTLs :
          ArrivesSeq(r) /\ compute_fibonacci(r, n, t)
    \/ \E r \in Requests, n \in FactorialArgs, t \in TTLs :
          ArrivesSeq(r) /\ compute_factorial(r, n, t)
    \/ Proceed

SpecSeq == Init /\ [][NextSeq]_vars

\* one client that makes a single call, drawn from the ranges; worker 1
\* serves it
Alone == calls = 0

NextRange ==
    \/ Alone /\ \E a \in PowerRangeArgs, t \in TTLs :
                   compute_power(1, a[1], a[2], t)
    \/ Alone /\ \E n \in FibonacciRange, t \in TTLs :
                   compute_fibonacci(1, n, t)
    \/ Alone /\ \E n \in FactorialRange, t \in TTLs :
                   compute_factorial(1, n, t)
    \/ Proceed

SpecRange == Init /\ [][NextRange]_vars

\* =================================================================== claims
Returned(r) == pc[r] = "returned"

\* the text the engine's value renders to, for the request a worker serves
Expected(r) == Str(EngineValue[CallOf(req[r])])

Contains(seq, x) == \E i \in 1..Len(seq) : seq[i] = x

SameCall(rec1, rec2) ==
    rec1.operation = rec2.operation /\ rec1.parameters = rec2.parameters

\* C1: for a client calling one request after the other on a store that
\* started empty, a call that returns was served from the store (cached=true,
\* with the engine's text for its parameters) exactly when the last write
\* under its key had not run out when it probed; so the first call, and a
\* call after the time to live has run out, return cached=false.
C1_CacheLifecycle ==
    \A r \in Requests :
        Returned(r) =>
            /\ result[r].cached <=> (saw[r] = "live")
            /\ saw[r] \in {"never", "expired"} => ~result[r].cached
            /\ saw[r] = "live" => result[r].result = Expected(r)
            /\ ~result[r].cached => cache_key[r] \in DOMAIN stored

C1_Witness ==
    /\ Len(history) = 3
    /\ SameCall(history[1], history[2]) /\ SameCall(history[2], history[3])
    /\ history[1].result = history[2].result
    /\ ~history[1].cached /\ history[2].cached /\ ~history[3].cached
    /\ Returned(1) /\ saw[1] = "expired"

\* C2: whatever the interleaving of requests, expiries and repeated calls,
\* every result returned for an (operation, params), cached or not, and every
\* payload kept in the store under its key, carries the text of the engine's
\* value for those params.
C2_ResultReproducible ==
    /\ \A r \in Requests : Returned(r) => result[r].result = Expected(r)
    /\ \A c \in Calls :
          LET key == _generate_cache_key(c.operation, c.params)
          IN  key \in DOMAIN cache =>
                  JsonField(cache[key].value, "result") = Str(EngineValue[c])

C2_Witness ==
    /\ Returned(1) /\ Returned(2)
    /\ CallOf(req[1]) = CallOf(req[2])
    /\ result[1].cached # result[2].cached
    /\ result[1].result = result[2].result
    /\ Cardinality(DOMAIN cache) = 1

\* C3: a request that returns has cached=true exactly when its probe found an
\* entry, and then the engine was not run for it; otherwise cached=false and
\* the engine ran.
C3_CachedIffServedFromStore ==
    \A r \in Requests :
        Returned(r) =>
            /\ result[r].cached <=> (trace[r][1] = "hit")
            /\ result[r].cached <=> ~Contains(trace[r], "compute")

C3_Witness ==
    \E r, q \in Requests :
        /\ Returned(r) /\ result[r].cached
        /\ trace[r] = <<"hit", "save", "publish">>
        /\ Returned(q) /\ ~result[q].cached
        /\ trace[q] = <<"miss", "compute", "setex", "save", "publish">>

\* the calls that validation rejects
IsRejected(operation, params) ==
    \/ operation = "factorial" /\ Param(params, "n") > FACTORIAL_MAX
    \/ operation = "power" /\ Param(params, "base") = 0
                           /\ Param(params, "exponent") < 0

EdgeCalls ==
    { [operation |-> "power", params |-> PowerParams(a[1], a[2])] : a \in PowerEdgeArgs }
    \cup { [operation |-> "factorial", params |-> NParams(n)] : n \in FactorialEdgeArgs }

\* C4: a request that validation rejects (factorial above the ceiling, power
\* of a zero base to a negative exponent) never returns a result, makes no
\* write to the store, the history or the events, and no entry is ever
\* stored under its key.
C4_RejectedLeavesNoTrace ==
    /\ \A r \in Requests :
          (pc[r] # "idle" /\ IsRejected(req[r].operation, req[r].params)) =>
              /\ pc[r] \in {"get", "raised"}
              /\ pc[r] = "raised" =>
                    err[r] \in {"InputTooLarge", "ZeroDivisionError", "cache_client.get"}
              /\ \A i \in 1..Len(trace[r]) : trace[r][i] \in {"miss", "compute"}
    /\ \A i \in 1..Len(history) :
          ~IsRejected(history[i].operation, history[i].parameters)
    /\ \A i \in 1..Len(events) : ~IsRejected(events[i].operation, events[i].params)
    /\ \A c \in EdgeCalls :
          IsRejected(c.operation, c.params) =>
              /\ _generate_cache_key(c.operation, c.params) \notin DOMAIN cache
              /\ _generate_cache_key(c.operation, c.params) \notin DOMAIN stored

C4_Witness ==
    \E r, q \in Requests :
        /\ pc[r] = "raised" /\ err[r] = "ZeroDivisionError"
        /\ trace[r] = <<"miss", "compute">>
        /\ Returned(q) /\ ~result[q].cached
        /\ Len(history) = 1 /\ Len(events) = 1 /\ Cardinality(DOMAIN cache) = 1

\* C5: a failure of HistorySink.record (repo.save_computation) or of
\* EventPublisher.publish (publish_event) never reaches the caller as the
\* outcome of its request.
C5_SideEffectFailureSwallowed ==
    \A r \in Requests :
        pc[r] = "raised" => err[r] \notin {"save_computation", "publish_event"}

\* C6: a failure of the ResultStore write (cache_client.setex) on a miss does
\* not fail the request.
C6_StoreFailureSwallowed ==
    \A r \in Requests : ~(pc[r] = "raised" /\ err[r] = "cache_client.setex")

\* C7: a failure of the ResultStore probe (cache_client.get) does not fail the
\* request: it goes on as a miss.
C7_ProbeFailureIsMiss ==
    \A r \in Requests : ~(pc[r] = "raised" /\ err[r] = "cache_client.get")

\* C8: compute_factorial rejects with InputTooLarge exactly when n is above
\* the ceiling of 50000 (50000 itself is accepted), and a rejected request
\* has made no probe, no computation, no store and no log.
C8_CeilingRejectsBeforeWork ==
    \A r \in Requests :
        (pc[r] # "idle" /\ req[r].operation = "factorial") =>
            /\ (pc[r] = "raised" /\ err[r] = "InputTooLarge")
                  <=> Param(req[r].params, "n") > 50000
            /\ err[r] = "InputTooLarge" =>
                  /\ trace[r] = << >>
                  /\ saw[r] = "nothing"
                  /\ cache_key[r] = None
                  /\ ~Contains(logged_by, call_id[r])

C8_Witness ==
    \E r, q \in Requests :
        /\ req[r].operation = "factorial" /\ Param(req[r].params, "n") = 50000
        /\ Returned(r) /\ Contains(trace[r], "compute")
        /\ req[q].operation = "factorial" /\ Param(req[q].params, "n") = 50001
        /\ pc[q] = "raised" /\ err[q] = "InputTooLarge"
        /\ call_id[r] < call_id[q]

\* the records a request has written to the history
RecordsOf(r) == {i \in 1..Len(logged_by) : logged_by[i] = call_id[r]}

LoggedOnce(r) ==
    /\ Cardinality(RecordsOf(r)) = 1
    /\ \A i \in RecordsOf(r) :
          /\ history[i].operation = req[r].operation
          /\ history[i].parameters = req[r].params
          /\ history[i].cached = result[r].cached

\* C9: every request that returns, hit or miss, has added exactly one record
\* to the history, with its operation, its parameters and the cached flag of
\* the result it returns; and no step changes or removes a record.
C9_OneRecordPerRequest ==
    [][ /\ \A r \in Requests : Returned(r)' => LoggedOnce(r)'
        /\ Len(history') >= Len(history)
        /\ SubSeq(history', 1, Len(history)) = history ]_vars

C9_Witness ==
    /\ Returned(1) /\ Returned(2)
    /\ result[1].cached # result[2].cached
    /\ Len(history) = 2
    /\ LoggedOnce(1) /\ LoggedOnce(2)

\* C10: on a hit the engine is not run, and the computation_time_ms returned
\* is that of the lookup (zero), not that of a computation.
C10_HitTimeIsLookupCost ==
    \A r \in Requests :
        (Returned(r) /\ result[r].cached) =>
            /\ ~Contains(trace[r], "compute")
            /\ result[r].computation_time_ms = 0

\* the calls with a negative n
IsNegativeN(operation, params) ==
    operation \in {"fibonacci", "factorial"} /\ Param(params, "n") < 0

\* C11: fibonacci and factorial reject every negative n: a request with a
\* negative n never gets past its entry (it never compiles a result, never
\* returns one), nothing is ever stored under its key and no history record
\* is written for it.
C11_NegativeNRejected ==
    /\ \A r \in Requests :
          (pc[r] # "idle" /\ IsNegativeN(req[r].operation, req[r].params)) =>
              /\ ~Returned(r)
              /\ ~Contains(trace[r], "compute")
              /\ cache_key[r] # None => cache_key[r] \notin DOMAIN stored
    /\ \A i \in 1..Len(history) :
          ~IsNegativeN(history[i].operation, history[i].parameters)

\* the term of a sequence defined by a recurrence on the terms before it
NextFibonacci(seq) == (seq[Len(seq)] + seq[Len(seq) - 1]) % Modulus
NextFactorial(seq) == (seq[Len(seq)] * Len(seq)) % Modulus

\* the Fibonacci numbers F(0), F(1), ... by F(n) = F(n-1) + F(n-2): seq
\* extended, term after term, to the given length
RECURSIVE FibonacciTerms(_, _)
FibonacciTerms(seq, length) ==
    IF Len(seq) >= length THEN seq
    ELSE IF Len(seq) = length - 1 THEN Append(seq, NextFibonacci(seq))
    ELSE FibonacciTerms(FibonacciTerms(seq, (Len(seq) + length) \div 2), length)

\* FibonacciNumber[n + 1] is F(n)
FibonacciNumber == FibonacciTerms(<<0, 1>>, MaxFibN + 1)

IterativeFibonacci == [n \in 0..MaxFibN |-> _iterative_fibonacci(n)]
MatrixFibonacci == [n \in 0..MaxFibN |-> _matrix_fibonacci(n)]

\* the two methods, and the one compute_fibonacci picks, against the
\* recurrence, for every n of the range
FibonacciMethodsAgree ==
    \A n \in 0..MaxFibN :
        /\ IterativeFibonacci[n] = FibonacciNumber[n + 1]
        /\ MatrixFibonacci[n] = FibonacciNumber[n + 1]
        /\ FibonacciDispatch(n) = FibonacciNumber[n + 1]

\* C12: for every n from 0 to MaxFibN, on both sides of the threshold of
\* 1000, _iterative_fibonacci(n) and _matrix_fibonacci(n) are the same
\* integer, the n-th Fibonacci number (F(10) = 55), and the result that
\* compute_fibonacci returns for n is its text.
C12_FibonacciMethodsAgree ==
    /\ FibonacciNumber[11] = 55
    /\ FibonacciMethodsAgree
    /\ \A r \in Requests :
          (pc[r] # "idle" /\ req[r].operation = "fibonacci"
                          /\ Param(req[r].params, "n") \in 0..MaxFibN) =>
              LET n == Param(req[r].params, "n")
              IN  /\ IterativeFibonacci[n] = FibonacciNumber[n + 1]
                  /\ MatrixFibonacci[n] = FibonacciNumber[n + 1]
                  /\ Returned(r) => result[r].result = StrInt(FibonacciNumber[n + 1])

C12_Witness ==
    /\ Returned(1) /\ req[1].operation = "fibonacci"
    /\ Param(req[1].params, "n") = FIBONACCI_MATRIX_THRESHOLD + 1
    /\ result[1].result = StrInt(IterativeFibonacci[FIBONACCI_MATRIX_THRESHOLD + 1])
    /\ ~result[1].cached

\* the products 0!, 1!, 2!, ... by n! = (n-1)! * n: seq extended, term after
\* term, to the given length
RECURSIVE FactorialTerms(_, _)
FactorialTerms(seq, length) ==
    IF Len(seq) >= length THEN seq
    ELSE IF Len(seq) = length - 1 THEN Append(seq, NextFactorial(seq))
    ELSE FactorialTerms(FactorialTerms(seq, (Len(seq) + length) \div 2), length)

\* NaiveProduct[n + 1] is 1 * 2 * ... * n
NaiveProduct == FactorialTerms(<<1>>, MaxFactN + 1)

OptimizedFactorial == [n \in 0..MaxFactN |-> _optimized_factorial(n)]

\* _optimized_factorial against the running product, for every n of the range
FactorialAgrees ==
    \A n \in 0..MaxFactN : OptimizedFactorial[n] = NaiveProduct[n + 1]

\* C13: for every n from 0 to MaxFactN, below and above the threshold of 100
\* at which _optimized_factorial splits the range, _optimized_factorial(n) is
\* the product 1 * 2 * ... * n (1 for n <= 1; 120 for n = 5), and the result
\* that compute_factorial returns for n is its text.
C13_FactorialIsNaiveProduct ==
    /\ NaiveProduct[1] = 1 /\ NaiveProduct[2] = 1 /\ NaiveProduct[6] = 120
    /\ FactorialAgrees
    /\ \A r \in Requests :
          (pc[r] # "idle" /\ req[r].operation = "factorial"
                          /\ Param(req[r].params, "n") \in 0..MaxFactN) =>
              LET n == Param(req[r].params, "n")
              IN  /\ OptimizedFactorial[n] = NaiveProduct[n + 1]
                  /\ Returned(r) => result[r].result = StrInt(NaiveProduct[n + 1])

C13_Witness ==
    /\ Returned(1) /\ req[1].operation = "factorial"
    /\ Param(req[1].params, "n") = (2 * FACTORIAL_ITERATIVE_MAX) + Window
    /\ result[1].result = StrInt(NaiveProduct[(2 * FACTORIAL_ITERATIVE_MAX) + Window + 1])
    /\ ~result[1].cached

\* base multiplied by itself exp times
RECURSIVE RepeatedProduct(_, _)
RepeatedProduct(base, exp) ==
    IF exp = 0 THEN 1 ELSE base * RepeatedProduct(base, exp - 1)

IsPower(r) == pc[r] # "idle" /\ req[r].operation = "power"

\* C14: for every base from -MaxBase to MaxBase and every exponent from 0 to
\* MaxExponent (and for 2 to the 10th), _fast_power(base, exponent) is the
\* integer base * ... * base (exponent times), which is 1 when the exponent is
\* 0, also for base 0; compute_power returns its text ("1024", "1").
C14_PowerIsRepeatedProduct ==
    \A r \in Requests :
        (IsPower(r) /\ Param(req[r].params, "exponent") >= 0) =>
            LET base == Param(req[r].params, "base")
                exponent == Param(req[r].params, "exponent")
            IN  /\ _fast_power(base, exponent) = IntVal(RepeatedProduct(base, exponent))
                /\ exponent = 0 => _fast_power(base, exponent) = IntVal(1)
                /\ Returned(r) =>
                      result[r].result = StrInt(RepeatedProduct(base, exponent))

C14_Witness ==
    /\ Returned(1) /\ req[1].operation = "power"
    /\ Param(req[1].params, "base") = 2 /\ Param(req[1].params, "exponent") = 10
    /\ result[1].result = <<"1", "0", "2", "4">>

\* C15: for every exponent from -MaxExponent to -1: with base 0 the request
\* fails with ZeroDivisionError once the engine has run, the caller gets the
\* error and no result, and nothing is stored or logged; with a base other
\* than 0 _fast_power yields the reciprocal of base * ... * base (-exponent
\* times) and compute_power returns its text ("0.5" for 2 to the -1).
C15_NegativeExponent ==
    \A r \in Requests :
        (IsPower(r) /\ Param(req[r].params, "exponent") < 0) =>
            LET base == Param(req[r].params, "base")
                exponent == Param(req[r].params, "exponent")
            IN  IF base = 0
                THEN /\ _fast_power(base, exponent) = Raised("ZeroDivisionError")
                     /\ ~Returned(r)
                     /\ result[r] = NoResult
                     /\ Contains(trace[r], "compute") =>
                            pc[r] = "raised" /\ err[r] = "ZeroDivisionError"
                     /\ cache = << >> /\ history = << >> /\ events = << >>
                ELSE /\ _fast_power(base, exponent)
                            = RecipVal(RepeatedProduct(base, 0 - exponent))
                     /\ Returned(r) =>
                            result[r].result
                                = StrRecip(RepeatedProduct(base, 0 - exponent))
                     /\ (Returned(r) /\ base = 2 /\ exponent = -1) =>
                            result[r].result = <<"0", ".", "5">>

C15_Witness ==
    /\ Returned(1) /\ req[1].operation = "power"
    /\ Param(req[1].params, "base") = -2 /\ Param(req[1].params, "exponent") = -3
    /\ result[1].result = <<"-", "0", ".", "1", "2", "5">>

\* the orders in which the parameters of a call can be given
InsertionOrders(params) ==
    { [i \in 1..Len(params) |-> params[f[i]]] :
        f \in { g \in [1..Len(params) -> 1..Len(params)] :
                    \A i, j \in 1..Len(params) : i # j => g[i] # g[j] } }

\* calls that differ from a call in its operation or in one parameter value,
\* or that have its values the other way round
Neighbours(call) ==
    IF call.operation = "power"
    THEN LET base == Param(call.params, "base")
             exponent == Param(call.params, "exponent")
         IN  { [operation |-> "power", params |-> PowerParams(base + 1, exponent)],
               [operation |-> "power", params |-> PowerParams(base, exponent + 1)],
               [operation |-> "fibonacci", params |-> PowerParams(base, exponent)] }
             \cup (IF base = exponent THEN {}
                   ELSE { [operation |-> "power",
                           params |-> PowerParams(exponent, base)] })
    ELSE LET n == Param(call.params, "n")
         IN  { [operation |-> call.operation, params |-> NParams(n + 1)],
               [operation |-> call.operation, params |-> NParams(0 - n - 1)],
               [operation |-> IF call.operation = "fibonacci"
                              THEN "factorial" ELSE "fibonacci",
                params |-> NParams(n)] }

\* the text hashed for each call of the range workload
KeyDataOf == [c \in RangeCalls |-> KeyData(c.operation, c.params)]

\* no two calls of the range workload have the same text
KeyDataDistinct ==
    Cardinality({ KeyDataOf[c] : c \in RangeCalls }) = Cardinality(RangeCalls)

\* C16: the key of a request is the same whatever the order in which its
\* parameters are given (it is the key of the sorted text), and the text that
\* is hashed is different for every call with another operation or another
\* parameter value: no two calls of the range workload have the same text.
C16_KeyCanonical ==
    /\ KeyDataDistinct
    /\ \A r \in Requests :
          cache_key[r] # None =>
              /\ \A params \in InsertionOrders(req[r].params) :
                    /\ _generate_cache_key(req[r].operation, params) = cache_key[r]
                    /\ KeyData(req[r].operation, params) = KeyDataOf[CallOf(req[r])]
              /\ \A c \in Neighbours(CallOf(req[r])) :
                    /\ KeyData(c.operation, c.params) # KeyDataOf[CallOf(req[r])]
                    /\ _generate_cache_key(c.operation, c.params) # cache_key[r]

C16_Witness ==
    /\ Returned(1) /\ req[1].operation = "power"
    /\ req[1].params = << <<"base", 2>>, <<"exponent", 10>> >>
    /\ cache_key[1] = _generate_cache_key("power", << <<"exponent", 10>>, <<"base", 2>> >>)
    /\ KeyData("power", << <<"exponent", 10>>, <<"base", 2>> >>)
          = <<"power", ":", "{", "\"", "base", "\"", ": ", "2", ", ",
              "\"", "exponent", "\"", ": ", "1", "0", "}">>
    /\ cache_key[1] \in DOMAIN stored

\* the steps of a request that misses, in the order of the code
MissOrder == <<"miss", "compute", "setex", "save", "publish">>

IsPrefix(seq, whole) ==
    Len(seq) <= Len(whole) /\ seq = SubSeq(whole, 1, Len(seq))

\* worker r takes the step that completes cache_client.setex
StoreStep(r) == pc[r] = "setex" /\ pc'[r] = "log"

\* C17: a request that misses takes its steps in the order probe, compute,
\* store, record, publish: at every moment the steps it has taken are the
\* first ones of that list; its store puts the payload under its key for the
\* time to live it was called with; and when it returns it has taken them all.
C17_MissStepOrder ==
    [][ \A r \in Requests :
          /\ (trace'[r] # << >> /\ trace'[r][1] = "miss") =>
                /\ IsPrefix(trace'[r], MissOrder)
                /\ Returned(r)' => trace'[r] = MissOrder
          /\ (Returned(r)' /\ ~result'[r].cached) => trace'[r] = MissOrder
          /\ StoreStep(r) =>
                /\ trace[r] = <<"miss", "compute">>
                /\ cache'[cache_key[r]].expires = now + req[r].cache_ttl
                /\ cache'[cache_key[r]].value = Json(result[r]) ]_vars

C17_Witness ==
    \E r \in Requests :
        /\ Returned(r) /\ trace[r] = MissOrder
        /\ req[r].cache_ttl = 1 /\ now = 0
        /\ cache_key[r] \in DOMAIN cache
        /\ cache[cache_key[r]].expires = 1
        /\ Len(history) = 1 /\ Len(events) = 1

\* two workers that serve the same (operation, params) and both found the key
\* never written when they probed
BothMissed(r, q) ==
    /\ r # q
    /\ pc[r] # "idle" /\ pc[q] # "idle"
    /\ CallOf(req[r]) = CallOf(req[q])
    /\ saw[r] = "never" /\ saw[q] = "never"

\* the next step of worker r can be taken
CanStep(r) ==
    /\ pc[r] = "get" => ENABLED Probe(r)
    /\ pc[r] = "setex" => ENABLED Store(r)
    /\ pc[r] = "log" => ENABLED save_computation(r)
    /\ pc[r] = "publish" => ENABLED publish_event(r)

\* C18: nothing keeps two requests for the same (operation, params) apart:
\* whatever the other one is doing, the next step of a request can be taken;
\* two of them that both found the key never written both run the engine,
\* and when they return each has cached=false and a request_id of its own;
\* a store replaces whatever is under the key, so the entry left is the one
\* written last.
C18_NoMutualExclusion ==
    [][ /\ \A r \in Requests : CanStep(r)'
        /\ \A r, q \in Requests :
              BothMissed(r, q)' =>
                  /\ Contains(trace'[r], "compute") /\ Contains(trace'[q], "compute")
                  /\ (Returned(r)' /\ Returned(q)') =>
                        /\ ~result'[r].cached /\ ~result'[q].cached
                        /\ result'[r].request_id # result'[q].request_id
                        /\ Contains(trace'[r], "setex") /\ Contains(trace'[q], "setex")
        /\ \A r \in Requests :
              StoreStep(r) =>
                  /\ cache_key[r] \in DOMAIN cache'
                  /\ JsonField(cache'[cache_key[r]].value, "request_id")
                        = result[r].request_id ]_vars

\* both missed, both stored, both returned; the entry is the second write
C18_Witness ==
    \E r, q \in Requests :
        /\ BothMissed(r, q)
        /\ Returned(r) /\ Returned(q)
        /\ ~result[r].cached /\ ~result[q].cached
        /\ result[r].request_id < result[q].request_id
        /\ trace[r] = MissOrder /\ trace[q] = MissOrder
        /\ cache_key[r] \in DOMAIN cache
        /\ cache[cache_key[r]].value = Json(result[r])
        /\ req[r].cache_ttl # req[q].cache_ttl
        /\ cache[cache_key[r]].expires = now + req[r].cache_ttl

\* worker r takes the step that completes cache_client.get with a payload
HitStep(r) == pc[r] = "get" /\ pc'[r] = "log"

\* the entry under key k is written or replaced in this step
Written(k) ==
    /\ k \in DOMAIN cache'
    /\ k \in DOMAIN cache => cache'[k] # cache[k]

\* C19: the payload under a key is always the one a miss computation stored
\* there (its result as built, with cached=false), and a hit returns that
\* payload with nothing changed but cached, which is true: the request_id,
\* the result and the computation_time_ms returned are those of the miss
\* whose write is in the store when the probe is answered.
C19_HitReturnsStoredPayload ==
    [][ /\ \A k \in DOMAIN cache' :
              Written(k) =>
                  \E r \in Requests :
                      /\ StoreStep(r) /\ cache_key[r] = k
                      /\ ~result[r].cached
                      /\ trace[r] = <<"miss", "compute">>
                      /\ cache'[k].value = Json(result[r])
        /\ \A r \in Requests :
              HitStep(r) =>
                  /\ cache_key[r] \in DOMAIN cache /\ now < cache[cache_key[r]].expires
                  /\ LET payload == cache[cache_key[r]].value
                     IN  /\ result'[r].request_id = JsonField(payload, "request_id")
                         /\ result'[r].result = JsonField(payload, "result")
                         /\ result'[r].computation_time_ms
                               = JsonField(payload, "computation_time_ms")
                         /\ JsonField(payload, "cached") = FALSE
                         /\ result'[r].cached = TRUE
        /\ \A r \in Requests :
              (Returned(r)' /\ ~Returned(r)) => result'[r] = result[r] ]_vars

\* a miss has returned and its write is in the store; a hit has returned its
\* request_id and result with cached=true
C19_Witness ==
    \E r, q \in Requests :
        /\ Returned(q) /\ ~result[q].cached
        /\ Returned(r) /\ result[r].cached
        /\ cache_key[r] = cache_key[q]
        /\ cache_key[q] \in DOMAIN cache
        /\ cache[cache_key[q]].value = Json(result[q])
        /\ result[r] = [result[q] EXCEPT !.cached = TRUE]
        /\ result[q].computation_time_ms = MaxComputeMs

====
